---- MODULE Spec2Model ----
(***************************************************************************)
(* kuehree: prefix-sum range queries (src/src/sum_query.rs).               *)
(*                                                                         *)
(* Three storage variants (SumQuerySlice, SumQueryFixed, SumQueryVec)      *)
(* implement the trait SumQuery: new(data) builds prefix_sum_array in a    *)
(* while loop over idx, query(start, end) answers from the table.          *)
(*                                                                         *)
(* The element type T is any T: Num + Copy.  It is modelled as a W-bit      *)
(* integer, signed or unsigned, or as a binary floating-point type with P  *)
(* significand bits and largest exponent Emax (the tests use u32, u64, i8  *)
(* and f32; f32 is P = 24, Emax = 104).                                    *)
(* Rust's primitive `+` and `-` panic on overflow when the build has       *)
(* overflow checks (debug and test profiles) and wrap otherwise (release), *)
(* so the build is part of the state.  Indices are usize: 0-based in the   *)
(* source, so source index i is position i + 1 of a TLA+ sequence.         *)
(*                                                                         *)
(* The library is synchronous and single-threaded: the three structures    *)
(* are built one call after the other from the same data, each call        *)
(* running to its end, and are queried once the calls are over, one query  *)
(* after the other.                                                        *)
(***************************************************************************)
EXTENDS Integers, Sequences, FiniteSets

\* Bounds of the model: the width of the integer types, the length of a source
\* of integers, the length of a source of floating-point numbers, the
\* significand width and the largest exponent of the floating-point type, and
\* the magnitude of the ordinary floating-point elements of a source.
W == 1
MaxLen == 3
MaxLenF == 2
P == 2
Emax == 2
MaxElem == 1

MaxIdx == MaxLen

Variants == <<"Slice", "Fixed", "Vec">>
VariantSet == {"Slice", "Fixed", "Vec"}

VARIABLES
    float,             \* T is a floating-point type (TRUE) or an integer type
    signed,            \* T is a signed (TRUE) or unsigned (FALSE) W-bit integer
    overflow_checks,   \* the build panics on arithmetic overflow (TRUE) or wraps
    data,              \* the source sequence handed to new()
    pc,                \* per variant: "idle", "loop", "done", "panicked"
    idx,               \* per variant: new()'s local idx
    prefix_sum_array,  \* per variant: the table under construction / stored
    last               \* the latest query() call and its outcome

vars == <<float, signed, overflow_checks, data, pc, idx, prefix_sum_array, last>>

----------------------------------------------------------------------------
\* The element type T.

RECURSIVE Pow2(_)
Pow2(n) == IF n = 0 THEN 1 ELSE 2 * Pow2(n - 1)

\* Floating-point T: the finite values are m * 2^e and their negations, with
\* a significand m of P bits (0 <= m < 2^P) and an exponent e in 0..Emax;
\* round to nearest with ties to even, overflow to an infinity, NaN.  The
\* model holds the values that are integers; the infinities and NaN are the
\* numbers Inf, -Inf and NaN, which lie beyond every finite sum of two values.

\* The largest finite value: the largest significand at the largest exponent.
FMax == (Pow2(P) - 1) * Pow2(Emax)
Inf == 4 * FMax
NaN == 4 * FMax + 1

\* The distance between neighbouring values at the magnitude c.
Ulp(c) == IF c < Pow2(P) THEN 1
          ELSE Pow2(CHOOSE e \in 1..(Emax + 1) : Pow2(P + e - 1) <= c /\ c < Pow2(P + e))

\* A magnitude x rounded to the nearest value, ties to the even significand;
\* a result past FMax is an infinity.
RoundMag(x) ==
    IF x >= Pow2(P + Emax) THEN Inf
    ELSE LET u == Ulp(x)
             lo == (x \div u) * u
             hi == lo + u
             r == IF x - lo < hi - x THEN lo
                  ELSE IF x - lo > hi - x THEN hi
                  ELSE IF (lo \div u) % 2 = 0 THEN lo ELSE hi
         IN  IF r > FMax THEN Inf ELSE r

RoundF(x) == IF x >= 0 THEN RoundMag(x) ELSE 0 - RoundMag(0 - x)

FNeg(a) == IF a = NaN THEN NaN ELSE 0 - a

\* a + b on a floating-point T: never a panic.
FAdd(a, b) ==
    IF a = NaN \/ b = NaN THEN NaN
    ELSE IF a = Inf \/ a = 0 - Inf THEN (IF b = 0 - a THEN NaN ELSE a)
    ELSE IF b = Inf \/ b = 0 - Inf THEN b
    ELSE RoundF(a + b)

\* a - b on a floating-point T.
FSub(a, b) == FAdd(a, FNeg(b))

TMin == IF float THEN 0 - FMax ELSE IF signed THEN 0 - Pow2(W - 1) ELSE 0
TMax == IF float THEN FMax ELSE IF signed THEN Pow2(W - 1) - 1 ELSE Pow2(W) - 1

InRange(x) == TMin <= x /\ x <= TMax

\* Two's-complement wraparound of a mathematical integer into T.
Wrap(x) == IF signed
           THEN ((x + Pow2(W - 1)) % Pow2(W)) - Pow2(W - 1)
           ELSE x % Pow2(W)

\* Mutant of TAdd: the sum saturates at the ends of T instead of wrapping.
TAdd_Saturating(a, b) ==
    IF float THEN [ok |-> TRUE, val |-> FAdd(a, b)]
    ELSE IF InRange(a + b) THEN [ok |-> TRUE, val |-> a + b]
    ELSE IF overflow_checks THEN [ok |-> FALSE, val |-> 0]
    ELSE [ok |-> TRUE, val |-> IF a + b > TMax THEN TMax ELSE TMin]

\* a + b on T: the value, or a panic when the build checks overflow.
TAdd(a, b) == IF float THEN [ok |-> TRUE, val |-> FAdd(a, b)]
              ELSE IF InRange(a + b) THEN [ok |-> TRUE, val |-> a + b]
              ELSE IF overflow_checks THEN [ok |-> FALSE, val |-> 0]
              ELSE [ok |-> TRUE, val |-> Wrap(a + b)]

\* a - b on T.
TSub(a, b) == IF float THEN [ok |-> TRUE, val |-> FSub(a, b)]
              ELSE IF InRange(a - b) THEN [ok |-> TRUE, val |-> a - b]
              ELSE IF overflow_checks THEN [ok |-> FALSE, val |-> 0]
              ELSE [ok |-> TRUE, val |-> Wrap(a - b)]

Elems(s) == IF s THEN (0 - Pow2(W - 1)) .. (Pow2(W - 1) - 1) ELSE 0 .. (Pow2(W) - 1)

\* The floating-point elements a source may hold: the values of magnitude at
\* most MaxElem (the numbers that rounding leaves as they are), the largest
\* finite values, the infinities and NaN.
FloatElems ==
    {x \in (0 - MaxElem)..MaxElem : 0 - FMax <= x /\ x <= FMax /\ RoundF(x) = x}
        \cup {FMax, 0 - FMax, Inf, 0 - Inf, NaN}

\* The element types: the integer types, and the floating-point type.
Types == {[float |-> FALSE, signed |-> s] : s \in BOOLEAN}
            \cup {[float |-> TRUE, signed |-> TRUE]}

Sources(f, s) == IF f THEN FloatElems ELSE Elems(s)

\* The longest source of the element type.
MaxLenOf(f) == IF f THEN MaxLenF ELSE MaxLen

SeqsUpTo(S, n) == UNION {[1..k -> S] : k \in 0..n}

\* [T::zero(); N]
Zeros(n) == [i \in 1..n |-> 0]

----------------------------------------------------------------------------
\* Outcomes of a query() call.

Value(v, r, s) == [kind |-> "value", val |-> v, why |-> "none", reads |-> r, subs |-> s]
Panic(w, r, s) == [kind |-> "panic", val |-> 0, why |-> w, reads |-> r, subs |-> s]

NoQuery == [variant |-> "none", start |-> 0, end |-> 0,
            kind |-> "none", val |-> 0, why |-> "none", reads |-> 0, subs |-> 0]

Call(v, start, end, out) ==
    [variant |-> v, start |-> start, end |-> end,
     kind |-> out.kind, val |-> out.val, why |-> out.why,
     reads |-> out.reads, subs |-> out.subs]

----------------------------------------------------------------------------
\* query(&self, start, end), one operator per impl.  t is self.prefix_sum_array.
\* reads counts the table entries read, subs the subtractions performed.

\* Mutant of QuerySlice: the assertion is missing.
QuerySlice_NoAssert(t, start, end) ==
    IF start = 0
    THEN IF end < Len(t) THEN Value(t[end + 1], 1, 0)
         ELSE Panic("index", 0, 0)
    ELSE IF ~(end < Len(t)) THEN Panic("index", 0, 0)
    ELSE IF ~(start - 1 < Len(t)) THEN Panic("index", 1, 0)
    ELSE LET r == TSub(t[end + 1], t[start])
         IN  IF r.ok THEN Value(r.val, 2, 1) ELSE Panic("overflow", 2, 1)

\* impl SumQuery for SumQuerySlice
QuerySlice(t, start, end) ==
    IF ~(end >= start) THEN Panic("assert", 0, 0)
    ELSE IF start = 0
    THEN IF end < Len(t) THEN Value(t[end + 1], 1, 0)
         ELSE Panic("index", 0, 0)
    ELSE IF ~(end < Len(t)) THEN Panic("index", 0, 0)
    ELSE IF ~(start - 1 < Len(t)) THEN Panic("index", 1, 0)
    ELSE LET r == TSub(t[end + 1], t[start])
         IN  IF r.ok THEN Value(r.val, 2, 1) ELSE Panic("overflow", 2, 1)

\* Mutant of QueryFixed: subtracts table[start] instead of table[start - 1].
QueryFixed_OffByOne(t, start, end) ==
    IF ~(end >= start) THEN Panic("assert", 0, 0)
    ELSE IF start = 0
    THEN IF end < Len(t) THEN Value(t[end + 1], 1, 0)
         ELSE Panic("index", 0, 0)
    ELSE IF ~(end < Len(t)) THEN Panic("index", 0, 0)
    ELSE IF ~(start < Len(t)) THEN Panic("index", 1, 0)
    ELSE LET r == TSub(t[end + 1], t[start + 1])
         IN  IF r.ok THEN Value(r.val, 2, 1) ELSE Panic("overflow", 2, 1)

\* Mutant of QueryFixed: an end past the table is clamped to the last entry.
QueryFixed_Clamp(t, start, end) ==
    LET e == IF end < Len(t) \/ Len(t) = 0 THEN end ELSE Len(t) - 1
    IN  IF ~(end >= start) THEN Panic("assert", 0, 0)
        ELSE IF start = 0
        THEN IF e < Len(t) THEN Value(t[e + 1], 1, 0)
             ELSE Panic("index", 0, 0)
        ELSE IF ~(e < Len(t)) THEN Panic("index", 0, 0)
        ELSE IF ~(start - 1 < Len(t)) THEN Panic("index", 1, 0)
        ELSE LET r == TSub(t[e + 1], t[start])
             IN  IF r.ok THEN Value(r.val, 2, 1) ELSE Panic("overflow", 2, 1)

\* impl SumQuery for SumQueryFixed
QueryFixed(t, start, end) ==
    IF ~(end >= start) THEN Panic("assert", 0, 0)
    ELSE IF start = 0
    THEN IF end < Len(t) THEN Value(t[end + 1], 1, 0)
         ELSE Panic("index", 0, 0)
    ELSE IF ~(end < Len(t)) THEN Panic("index", 0, 0)
    ELSE IF ~(start - 1 < Len(t)) THEN Panic("index", 1, 0)
    ELSE LET r == TSub(t[end + 1], t[start])
         IN  IF r.ok THEN Value(r.val, 2, 1) ELSE Panic("overflow", 2, 1)

\* Mutant of QueryVec: the operands of the subtraction are swapped.
QueryVec_SwapOperands(t, start, end) ==
    IF ~(end >= start) THEN Panic("assert", 0, 0)
    ELSE IF start = 0
    THEN IF end < Len(t) THEN Value(t[end + 1], 1, 0)
         ELSE Panic("index", 0, 0)
    ELSE IF ~(start - 1 < Len(t)) THEN Panic("index", 0, 0)
    ELSE IF ~(end < Len(t)) THEN Panic("index", 1, 0)
    ELSE LET r == TSub(t[start], t[end + 1])
         IN  IF r.ok THEN Value(r.val, 2, 1) ELSE Panic("overflow", 2, 1)

\* impl SumQuery for SumQueryVec
QueryVec(t, start, end) ==
    IF ~(end >= start) THEN Panic("assert", 0, 0)
    ELSE IF start = 0
    THEN IF end < Len(t) THEN Value(t[end + 1], 1, 0)
         ELSE Panic("index", 0, 0)
    ELSE IF ~(end < Len(t)) THEN Panic("index", 0, 0)
    ELSE IF ~(start - 1 < Len(t)) THEN Panic("index", 1, 0)
    ELSE LET r == TSub(t[end + 1], t[start])
         IN  IF r.ok THEN Value(r.val, 2, 1) ELSE Panic("overflow", 2, 1)

----------------------------------------------------------------------------
\* One iteration of new()'s while loop, one operator per impl.  d is data,
\* t the table so far, i the local idx (i < d.len()).  The result is the
\* table after the iteration, or a panic.

\* Mutant of BodySlice: the element is pushed without the running sum.
BodySlice_NoAccumulate(d, t, i) == [ok |-> TRUE, table |-> Append(t, d[i + 1])]

\* SumQuerySlice::new: prefix_sum_array.push(..)
BodySlice(d, t, i) ==
    IF i = 0 THEN [ok |-> TRUE, table |-> Append(t, d[i + 1])]
    ELSE IF ~(i - 1 < Len(t)) THEN [ok |-> FALSE, table |-> t]
    ELSE LET r == TAdd(d[i + 1], t[i])
         IN  IF r.ok THEN [ok |-> TRUE, table |-> Append(t, r.val)]
             ELSE [ok |-> FALSE, table |-> t]

\* Mutant of BodyFixed: no idx == 0 branch, so idx - 1 underflows at idx = 0.
BodyFixed_NoZeroBranch(d, t, i) ==
    IF ~(i < Len(t)) THEN [ok |-> FALSE, table |-> t]
    ELSE IF i = 0 THEN [ok |-> FALSE, table |-> t]
    ELSE LET r == TAdd(d[i + 1], t[i])
         IN  IF r.ok THEN [ok |-> TRUE, table |-> [t EXCEPT ![i + 1] = r.val]]
             ELSE [ok |-> FALSE, table |-> t]

\* SumQueryFixed::new: prefix_sum_array[idx] = ..
BodyFixed(d, t, i) ==
    IF ~(i < Len(t)) THEN [ok |-> FALSE, table |-> t]
    ELSE IF i = 0 THEN [ok |-> TRUE, table |-> [t EXCEPT ![i + 1] = d[i + 1]]]
    ELSE LET r == TAdd(d[i + 1], t[i])
         IN  IF r.ok THEN [ok |-> TRUE, table |-> [t EXCEPT ![i + 1] = r.val]]
             ELSE [ok |-> FALSE, table |-> t]

\* Mutant of BodyVec: the element is subtracted from the previous sum.
BodyVec_Subtracts(d, t, i) ==
    IF i = 0 THEN [ok |-> TRUE, table |-> Append(t, d[i + 1])]
    ELSE IF ~(i - 1 < Len(t)) THEN [ok |-> FALSE, table |-> t]
    ELSE LET r == TSub(t[i], d[i + 1])
         IN  IF r.ok THEN [ok |-> TRUE, table |-> Append(t, r.val)]
             ELSE [ok |-> FALSE, table |-> t]

\* Mutant of BodyVec: adds the previous source element, not the previous sum.
BodyVec_AddsSource(d, t, i) ==
    IF i = 0 THEN [ok |-> TRUE, table |-> Append(t, d[i + 1])]
    ELSE LET r == TAdd(d[i + 1], d[i])
         IN  IF r.ok THEN [ok |-> TRUE, table |-> Append(t, r.val)]
             ELSE [ok |-> FALSE, table |-> t]

\* SumQueryVec::new: prefix_sum_array.push(..)
BodyVec(d, t, i) ==
    IF i = 0 THEN [ok |-> TRUE, table |-> Append(t, d[i + 1])]
    ELSE IF ~(i - 1 < Len(t)) THEN [ok |-> FALSE, table |-> t]
    ELSE LET r == TAdd(d[i + 1], t[i])
         IN  IF r.ok THEN [ok |-> TRUE, table |-> Append(t, r.val)]
             ELSE [ok |-> FALSE, table |-> t]

----------------------------------------------------------------------------
TypeOK ==
    /\ [float |-> float, signed |-> signed] \in Types
    /\ overflow_checks \in BOOLEAN
    /\ Len(data) <= MaxLenOf(float)
    /\ \A i \in 1..Len(data) : data[i] \in Sources(float, signed)
    /\ pc \in [VariantSet -> {"idle", "loop", "done", "panicked"}]
    /\ idx \in [VariantSet -> 0..MaxLen]
    /\ \A v \in VariantSet :
          /\ Len(prefix_sum_array[v]) <= MaxLen
          /\ \A i \in 1..Len(prefix_sum_array[v]) :
                \/ prefix_sum_array[v][i] \in TMin..TMax
                \/ float /\ prefix_sum_array[v][i] \in {Inf, 0 - Inf, NaN}

Init ==
    /\ \E ty \in Types : float = ty.float /\ signed = ty.signed
    /\ overflow_checks \in BOOLEAN
    /\ data \in SeqsUpTo(Sources(float, signed), MaxLenOf(float))
    /\ pc = [v \in VariantSet |-> "idle"]
    /\ idx = [v \in VariantSet |-> 0]
    /\ prefix_sum_array = [v \in VariantSet |-> <<>>]
    /\ last = NoQuery

Finished(v) == pc[v] \in {"done", "panicked"}

\* The calls are made in the order of Variants, each after the one before ended.
MayStart(v) == \A k \in 1..3 : Variants[k] = v => \A j \in 1..(k - 1) : Finished(Variants[j])

\* Entry of new(): the table is allocated, idx = 0.
Enter(v, t) ==
    /\ pc[v] = "idle"
    /\ MayStart(v)
    /\ pc' = [pc EXCEPT ![v] = "loop"]
    /\ idx' = [idx EXCEPT ![v] = 0]
    /\ prefix_sum_array' = [prefix_sum_array EXCEPT ![v] = t]
    /\ UNCHANGED <<float, signed, overflow_checks, data, last>>

\* Mutant of Iterate: idx += 2.
Iterate_SkipsOne(v, r) ==
    /\ IF r.ok
       THEN /\ prefix_sum_array' = [prefix_sum_array EXCEPT ![v] = r.table]
            /\ idx' = [idx EXCEPT ![v] = idx[v] + 2]
            /\ pc' = pc
       ELSE /\ pc' = [pc EXCEPT ![v] = "panicked"]
            /\ UNCHANGED <<idx, prefix_sum_array>>
    /\ UNCHANGED <<float, signed, overflow_checks, data, last>>

\* One iteration of the while loop: the body, then idx += 1.
Iterate(v, r) ==
    /\ IF r.ok
       THEN /\ prefix_sum_array' = [prefix_sum_array EXCEPT ![v] = r.table]
            /\ idx' = [idx EXCEPT ![v] = idx[v] + 1]
            /\ pc' = pc
       ELSE /\ pc' = [pc EXCEPT ![v] = "panicked"]
            /\ UNCHANGED <<idx, prefix_sum_array>>
    /\ UNCHANGED <<float, signed, overflow_checks, data, last>>

\* The loop condition is false: Self { data, prefix_sum_array } is returned.
Return(v) ==
    /\ pc' = [pc EXCEPT ![v] = "done"]
    /\ UNCHANGED <<float, signed, overflow_checks, data, idx, prefix_sum_array, last>>

AllFinished == \A v \in VariantSet : Finished(v)

\* Mutant of Record: query takes &mut self and keeps its answer in table[end].
Record_CachesInTable(v, start, end, out) ==
    /\ last' = Call(v, start, end, out)
    /\ prefix_sum_array' =
          IF out.kind = "value"
          THEN [prefix_sum_array EXCEPT ![v][end + 1] = out.val]
          ELSE prefix_sum_array
    /\ UNCHANGED <<float, signed, overflow_checks, data, pc, idx>>

\* query takes &self: the call reads the table and changes nothing.
Record(v, start, end, out) ==
    /\ last' = Call(v, start, end, out)
    /\ UNCHANGED <<float, signed, overflow_checks, data, pc, idx, prefix_sum_array>>

\* SumQuerySlice
SliceNew == Enter("Slice", <<>>)

SliceStep ==
    /\ pc["Slice"] = "loop"
    /\ idx["Slice"] < Len(data)
    /\ Iterate("Slice", BodySlice(data, prefix_sum_array["Slice"], idx["Slice"]))

SliceReturn ==
    /\ pc["Slice"] = "loop"
    /\ ~(idx["Slice"] < Len(data))
    /\ Return("Slice")

SliceQuery ==
    /\ AllFinished
    /\ pc["Slice"] = "done"
    /\ last = NoQuery
    /\ \E start \in 0..MaxIdx, end \in 0..MaxIdx :
          Record("Slice", start, end, QuerySlice(prefix_sum_array["Slice"], start, end))

\* SumQueryFixed<T, N>, N = Len(data)
FixedNew == Enter("Fixed", Zeros(Len(data)))

FixedStep ==
    /\ pc["Fixed"] = "loop"
    /\ idx["Fixed"] < Len(data)
    /\ Iterate("Fixed", BodyFixed(data, prefix_sum_array["Fixed"], idx["Fixed"]))

FixedReturn ==
    /\ pc["Fixed"] = "loop"
    /\ ~(idx["Fixed"] < Len(data))
    /\ Return("Fixed")

FixedQuery ==
    /\ AllFinished
    /\ pc["Fixed"] = "done"
    /\ last = NoQuery
    /\ \E start \in 0..MaxIdx, end \in 0..MaxIdx :
          Record("Fixed", start, end, QueryFixed(prefix_sum_array["Fixed"], start, end))

\* SumQueryVec
VecNew == Enter("Vec", <<>>)

VecStep ==
    /\ pc["Vec"] = "loop"
    /\ idx["Vec"] < Len(data)
    /\ Iterate("Vec", BodyVec(data, prefix_sum_array["Vec"], idx["Vec"]))

VecReturn ==
    /\ pc["Vec"] = "loop"
    /\ ~(idx["Vec"] < Len(data))
    /\ Return("Vec")

VecQuery ==
    /\ AllFinished
    /\ pc["Vec"] = "done"
    /\ last = NoQuery
    /\ \E start \in 0..MaxIdx, end \in 0..MaxIdx :
          Record("Vec", start, end, QueryVec(prefix_sum_array["Vec"], start, end))

\* The caller takes the result of the call (the tests collect the results of
\* their calls and compare them afterwards) and goes on to its next call.
Resume ==
    /\ last # NoQuery
    /\ last' = NoQuery
    /\ UNCHANGED <<float, signed, overflow_checks, data, pc, idx, prefix_sum_array>>

Construct ==
    \/ SliceNew \/ SliceStep \/ SliceReturn
    \/ FixedNew \/ FixedStep \/ FixedReturn
    \/ VecNew \/ VecStep \/ VecReturn

Next ==
    \/ SliceNew \/ SliceStep \/ SliceReturn \/ SliceQuery
    \/ FixedNew \/ FixedStep \/ FixedReturn \/ FixedQuery
    \/ VecNew \/ VecStep \/ VecReturn \/ VecQuery
    \/ Resume

Spec == Init /\ [][Next]_vars

\* new() is straight-line code: a call that has a step to take takes it.
FairSpec == Spec /\ WF_vars(Construct)

----------------------------------------------------------------------------
\* Ground truth: mathematical integers, direct summation.

N == Len(data)

\* S[a] + ... + S[b], 0-based and inclusive, element by element.
RECURSIVE NaiveSum(_, _, _)
NaiveSum(S, a, b) == IF a > b THEN 0 ELSE S[a + 1] + NaiveSum(S, a + 1, b)

\* The value of T congruent to x modulo 2^W.
Mod2w(x) == CHOOSE y \in TMin..TMax : (y - x) % Pow2(W) = 0

Queried == last.variant # "none"

Valid(start, end) == 0 <= start /\ start <= end /\ end <= N - 1

\* x is a number: always so for an integer T; not NaN or an infinity for a
\* floating-point T.
Finite(x) == ~float \/ x \notin {Inf, 0 - Inf, NaN}

\* No sum the code forms for query(start, end) leaves the range of T: the
\* elements up to end are numbers, and so are their sums.
NoOverflow(start, end) ==
    /\ \A i \in 0..end : Finite(data[i + 1])
    /\ \A i \in 0..end : InRange(NaiveSum(data, 0, i))
    /\ InRange(NaiveSum(data, start, end))

QueryOf(v, t, start, end) ==
    IF v = "Slice" THEN QuerySlice(t, start, end)
    ELSE IF v = "Fixed" THEN QueryFixed(t, start, end)
    ELSE QueryVec(t, start, end)

Started(v) == pc[v] # "idle"

----------------------------------------------------------------------------
\* x is a value of T: in range and, for a floating-point T, not rounded.
Representable(x) == InRange(x) /\ (float => RoundF(x) = x)

\* S[a] + ... + S[b] summed element by element with the addition of T.
RECURSIVE DirectSum(_, _, _)
DirectSum(S, a, b) ==
    IF a > b THEN 0
    ELSE IF float THEN FAdd(DirectSum(S, a, b - 1), S[b + 1])
    ELSE DirectSum(S, a, b - 1) + S[b + 1]

\* Every sum the code forms for query(start, end) is a value of T.
NoRounding(start, end) ==
    /\ \A i \in 0..end : Finite(data[i + 1])
    /\ \A i \in 0..end : Representable(NaiveSum(data, 0, i))
    /\ Representable(NaiveSum(data, start, end))

\* C1 as stated: for every valid (start, end), when no sum overflows,
\* query(start, end) returns the sum of S[start..=end] computed by direct
\* element-by-element summation.
C1_QueryIsNaiveSum ==
    (Queried /\ Valid(last.start, last.end) /\ NoOverflow(last.start, last.end))
        => /\ last.kind = "value"
           /\ last.val = DirectSum(data, last.start, last.end)

\* C1, amended: for every valid (start, end), when no sum overflows and none
\* is rounded (every prefix sum up to end and the range sum are values of T),
\* query(start, end) returns the exact sum of S[start..=end], on the
\* start == 0 branch and on the subtraction branch alike.
C1_QueryIsExactSum ==
    (Queried /\ Valid(last.start, last.end) /\ NoOverflow(last.start, last.end)
        /\ NoRounding(last.start, last.end))
        => /\ last.kind = "value"
           /\ last.val = NaiveSum(data, last.start, last.end)

C1_Witness ==
    /\ Queried /\ last.variant = "Fixed" /\ N = 2 /\ float
    /\ last.start = 1 /\ last.end = 1
    /\ NoOverflow(1, 1) /\ NoRounding(1, 1)
    /\ data[1] = 1 /\ data[2] = 0 - 1
    /\ last.kind = "value" /\ last.val = 0 - 1 /\ last.reads = 2

\* C2: after new(S) the table has N entries, table[0] = S[0] and
\* table[i] = table[i-1] + S[i] (the + of T); during construction the same
\* holds of the entries already written, those below idx.
C2_TableRecurrence ==
    \A v \in VariantSet :
        /\ pc[v] = "done" => (Len(prefix_sum_array[v]) = N /\ idx[v] = N)
        /\ Started(v) =>
             \A i \in 0..(idx[v] - 1) :
                /\ i < Len(prefix_sum_array[v])
                /\ i = 0 => prefix_sum_array[v][1] = data[1]
                /\ (i > 0 /\ float) =>
                     prefix_sum_array[v][i + 1]
                        = FAdd(prefix_sum_array[v][i], data[i + 1])
                /\ (i > 0 /\ ~float) =>
                     /\ prefix_sum_array[v][i + 1]
                           = Mod2w(prefix_sum_array[v][i] + data[i + 1])
                     /\ overflow_checks =>
                           prefix_sum_array[v][i + 1]
                              = prefix_sum_array[v][i] + data[i + 1]

C2_Witness ==
    /\ pc["Vec"] = "loop" /\ idx["Vec"] = 2 /\ N = 3
    /\ Len(prefix_sum_array["Vec"]) = 2
    /\ data[2] # 0
    /\ pc["Fixed"] = "done"

\* C3: query(start, end) with end < start fails the assertion before any
\* table entry is read and returns no value, wherever the indices lie.
C3_ReversedRangeAsserts ==
    (Queried /\ last.end < last.start)
        => (last.kind = "panic" /\ last.why = "assert" /\ last.reads = 0)

C3_Witness ==
    /\ Queried /\ last.variant = "Slice" /\ N = 3
    /\ last.start = 2 /\ last.end = 1
    /\ last.kind = "panic" /\ last.why = "assert"

\* C4: a query with start or end outside [0, N-1] returns no value; every
\* query on an empty structure fails.
C4_OutOfRangeFails ==
    (Queried /\ (last.start > N - 1 \/ last.end > N - 1))
        => last.kind = "panic"

C4_Witness ==
    /\ Queried /\ last.variant = "Fixed" /\ N = 2
    /\ last.start = 1 /\ last.end = 2
    /\ last.kind = "panic" /\ last.why = "index"

\* C5: on the same sequence the three variants build the same table, their
\* constructions end the same way, and a query answered by one is answered
\* the same way (same value, or a failure) by the other two.
C5_VariantsAgree ==
    /\ \A v1, v2 \in VariantSet :
          (pc[v1] = "done" /\ pc[v2] = "done")
             => prefix_sum_array[v1] = prefix_sum_array[v2]
    /\ AllFinished => \A v1, v2 \in VariantSet : pc[v1] = pc[v2]
    /\ Queried =>
          \A v \in VariantSet :
             LET o == QueryOf(v, prefix_sum_array[v], last.start, last.end)
             IN  /\ pc[v] = "done"
                 /\ o.kind = last.kind
                 /\ o.val = last.val

C5_Witness ==
    /\ Queried /\ last.variant = "Vec" /\ N = 3
    /\ last.start = 1 /\ last.end = 2 /\ last.kind = "value" /\ last.val # 0
    /\ \A v \in VariantSet : pc[v] = "done"

\* C6 as stated: construction cannot fail, whatever the source sequence.
C6_NewNeverFails == \A v \in VariantSet : pc[v] # "panicked"

\* C6, amended: new fails only when an addition leaves the range of an
\* integer T in a build that checks overflow; for the empty sequence (Fixed
\* included) it ends without entering the loop body and the table is empty.
C6_NewFailsOnlyOnOverflow ==
    \A v \in VariantSet :
        /\ pc[v] = "panicked" =>
              /\ overflow_checks /\ ~float
              /\ 1 <= idx[v] /\ idx[v] < N
              /\ ~InRange(NaiveSum(data, 0, idx[v]))
        /\ (~overflow_checks \/ float
               \/ \A i \in 0..(N - 1) : InRange(NaiveSum(data, 0, i)))
              => pc[v] # "panicked"
        /\ N = 0 => (idx[v] = 0 /\ prefix_sum_array[v] = <<>>)

C6_Witness ==
    /\ N = 0
    /\ \A v \in VariantSet : pc[v] = "done" /\ prefix_sum_array[v] = <<>>

\* C7: a query call, whether it returns or fails, leaves the source and the
\* tables as they were, and its result is the one the table as it stands gives:
\* the same call repeated later has the same result.
C7_QueryIsPure ==
    /\ [][AllFinished =>
            /\ data' = data
            /\ prefix_sum_array' = prefix_sum_array
            /\ pc' = pc /\ idx' = idx]_vars
    /\ [](Queried =>
            LET o == QueryOf(last.variant, prefix_sum_array[last.variant],
                             last.start, last.end)
            IN  o.kind = last.kind /\ o.val = last.val /\ o.why = last.why)

C7_Witness ==
    /\ Queried /\ last.variant = "Vec" /\ N = 3
    /\ last.start = 1 /\ last.end = 2 /\ last.kind = "value" /\ last.val = 1
    /\ prefix_sum_array["Vec"] = <<0, 1, 1>>

\* C8 as stated: query(i, i) = S[i] for every index i of the sequence:
\* table[0] for i = 0, table[i] - table[i-1] for i > 0.
C8_SingleElement ==
    (Queried /\ last.start = last.end /\ last.end <= N - 1)
        => /\ last.kind = "value"
           /\ last.val = data[last.start + 1]
           /\ last.start = 0 => last.reads = 1 /\ last.subs = 0
           /\ last.start > 0 => last.reads = 2 /\ last.subs = 1

\* C8, amended: query(i, i) = S[i] for every index i of the sequence when T
\* is an integer type, and for a floating-point T when i = 0 or the elements
\* up to i are numbers and no prefix sum up to i is rounded or overflows:
\* table[0] for i = 0, table[i] - table[i-1] for i > 0.
C8_SingleElementUnrounded ==
    (Queried /\ last.start = last.end /\ last.end <= N - 1
        /\ ((float /\ last.start > 0) =>
               \A k \in 0..last.end :
                   Finite(data[k + 1]) /\ Representable(NaiveSum(data, 0, k))))
        => /\ last.kind = "value"
           /\ last.val = data[last.start + 1]
           /\ last.start = 0 => last.reads = 1 /\ last.subs = 0
           /\ last.start > 0 => last.reads = 2 /\ last.subs = 1

C8_Witness ==
    /\ Queried /\ last.variant = "Vec" /\ ~float
    /\ last.start = 2 /\ last.end = 2 /\ N = 3
    /\ last.kind = "value" /\ last.val = data[3] /\ data[3] # 0
    /\ ~InRange(NaiveSum(data, 0, 2))

\* C9 as stated: every construction ends after exactly N iterations.
C9_AlwaysNIterations ==
    \A v \in VariantSet : Finished(v) => (pc[v] = "done" /\ idx[v] = N)

\* C9, amended: every construction ends; idx goes up by one per iteration
\* from 0; a construction that returns has run exactly N iterations, one that
\* does not has panicked on an overflowing addition before that; query reads
\* at most two table entries and subtracts at most once.
C9_Terminates ==
    /\ <>AllFinished
    /\ [](\A v \in VariantSet :
            /\ idx[v] <= N
            /\ pc[v] = "idle" => idx[v] = 0
            /\ pc[v] = "done" => idx[v] = N
            /\ pc[v] = "panicked" =>
                  (overflow_checks /\ ~float /\ idx[v] < N
                      /\ ~InRange(NaiveSum(data, 0, idx[v]))))
    /\ [][\A v \in VariantSet :
            /\ idx'[v] # idx[v] => (pc[v] = "loop" /\ idx'[v] = idx[v] + 1)
            /\ (pc[v] = "loop" /\ pc'[v] = "loop") => idx'[v] = idx[v] + 1
            /\ Finished(v) => pc'[v] = pc[v]]_vars
    /\ [](Queried => (last.reads <= 2 /\ last.subs <= 1))

C9_Witness ==
    /\ \A v \in VariantSet : pc[v] = "done" /\ idx[v] = 3
    /\ N = 3
    /\ Queried /\ last.reads = 2 /\ last.subs = 1

\* C10: with W-bit wraparound arithmetic (an integer T in a build that does
\* not check overflow) new and query never fail on overflow: table[i] is the
\* sum of S[0..=i] modulo 2^W and a valid query returns the sum of
\* S[start..=end] modulo 2^W, wrapped table entries or not.
C10_WrapAround ==
    (~overflow_checks /\ ~float) =>
        /\ \A v \in VariantSet :
              /\ pc[v] # "panicked"
              /\ Started(v) =>
                    \A i \in 0..(idx[v] - 1) :
                        prefix_sum_array[v][i + 1] = Mod2w(NaiveSum(data, 0, i))
        /\ (Queried /\ Valid(last.start, last.end))
              => /\ last.kind = "value"
                 /\ last.val = Mod2w(NaiveSum(data, last.start, last.end))

C10_Witness ==
    /\ ~overflow_checks /\ ~float /\ Queried /\ N = 3
    /\ last.start = 1 /\ last.end = 2 /\ last.kind = "value"
    /\ ~InRange(NaiveSum(data, 0, 1))
    /\ ~InRange(NaiveSum(data, 1, 2))

\* Every element of the source is non-negative and their total does not
\* overflow: it fits in an integer T; summed in a floating-point T it is a
\* number.
NonNegNoOverflow ==
    /\ \A i \in 1..N : data[i] >= 0 /\ (float => data[i] # NaN)
    /\ IF float THEN Finite(DirectSum(data, 0, N - 1))
       ELSE InRange(NaiveSum(data, 0, N - 1))

\* C11: when the elements are non-negative and their total does not overflow,
\* construction does not fail, the table is non-decreasing, so that
\* table[end] - table[start-1] is never below zero for a valid query with
\* start > 0, and the result of such a query is a value between 0 and
\* table[N-1].
C11_NonDecreasingTable ==
    NonNegNoOverflow =>
        /\ \A v \in VariantSet :
              /\ pc[v] # "panicked"
              /\ Started(v) =>
                    \A i, j \in 0..(idx[v] - 1) :
                        i <= j => prefix_sum_array[v][i + 1] <= prefix_sum_array[v][j + 1]
              /\ pc[v] = "done" =>
                    \A start \in 1..(N - 1), end \in 1..(N - 1) :
                        start <= end =>
                            prefix_sum_array[v][end + 1] - prefix_sum_array[v][start] >= 0
        /\ (Queried /\ Valid(last.start, last.end) /\ last.start > 0)
              => /\ last.kind = "value"
                 /\ 0 <= last.val
                 /\ last.val <= prefix_sum_array[last.variant][N]

C11_Witness ==
    /\ NonNegNoOverflow /\ ~float /\ ~signed /\ overflow_checks /\ N = 3
    /\ Queried /\ last.variant = "Vec"
    /\ last.start = 1 /\ last.end = 2
    /\ last.kind = "value" /\ last.val = 1 /\ last.subs = 1
    /\ prefix_sum_array["Vec"][3] = 1 /\ prefix_sum_array["Vec"][1] = 0

====
